---------------------------- MODULE Spec2Model ----------------------------
(***************************************************************************)
(* OBD-2 toolkit (khanfar/OBD2-PYTHON): the data logger's polling loops,   *)
(* its log files and their offline analysis (src/src/data_logger.py), the  *)
(* diagnostic tool's live monitor (src/src/obd_reader.py) and the          *)
(* dashboard's monitoring thread (src/src/dashboard.py).                   *)
(*                                                                         *)
(* Numbers are fixed-point tenths: the reading 800.0 is the integer 8000.  *)
(* Text (a CSV cell, a JSON string) is a sequence of one-character         *)
(* strings, so that formatting and parsing are computed, not assumed.      *)
(***************************************************************************)
EXTENDS Integers, Sequences, FiniteSets, TLC

(***************************************************************************)
(* Bounds of the model.                                                    *)
(***************************************************************************)
\* longest bounded run, in clock units (so at most MaxDuration ticks)
MaxDuration == 3
\* adapter objects one logger creates (calls of connect that build one)
MaxConnects == 2
\* calls of close() on one logger
MaxCloses == 2
\* ticks of an indefinite run (continuous_monitor, update_data) per thread
MaxTicks == 2
\* monitoring threads one dashboard starts
MaxThreads == 2

(***************************************************************************)
(* The requested commands, in the order the caller gives them              *)
(* (data_logger.py main() asks for RPM, SPEED, ...); two are modelled.     *)
(***************************************************************************)
Commands == <<"RPM", "SPEED">>

CommandSet == {Commands[i] : i \in 1..Len(Commands)}

(***************************************************************************)
(* An adapter response (obd.OBDResponse): <<>> is the null response        *)
(* (is_null() is true), <<v>> carries the value v.                         *)
(***************************************************************************)
NullResponse == <<>>

is_null(response) == response = <<>>

value(response) == response[1]

\* what the adapter can answer to each command, in tenths
Readings(cmd) == IF cmd = "RPM" THEN {8000, 8200} ELSE {0, 50, 70}

\* the outcome of one query is a response, or Raises: the call throws
Raises == <<0, 0>>

raised(outcome) == Len(outcome) = 2

(***************************************************************************)
(* Text.                                                                   *)
(***************************************************************************)
DigitChars == <<"0", "1", "2", "3", "4", "5", "6", "7", "8", "9">>

IsDigit(c) == \E d \in 1..10 : DigitChars[d] = c

DigitValue(c) == (CHOOSE d \in 1..10 : DigitChars[d] = c) - 1

RECURSIVE IntDigits(_)
\* the decimal digits of n >= 0
IntDigits(n) ==
    IF n < 10 THEN <<DigitChars[n + 1]>>
    ELSE Append(IntDigits(n \div 10), DigitChars[(n % 10) + 1])

\* str(x) of a float x of the model (tenths): "800.0", "0.5", "-3.5"
Str(v) ==
    LET a == IF v < 0 THEN -v ELSE v
        sign == IF v < 0 THEN <<"-">> ELSE <<>>
    IN  sign \o IntDigits(a \div 10) \o <<".">> \o IntDigits(a % 10)

RECURSIVE DigitsValue(_)
\* the number a non-empty sequence of digits spells
DigitsValue(s) ==
    IF Len(s) = 1 THEN DigitValue(s[1])
    ELSE 10 * DigitsValue(SubSeq(s, 1, Len(s) - 1)) + DigitValue(s[Len(s)])

AllDigits(s) == \A i \in 1..Len(s) : IsDigit(s[i])

(***************************************************************************)
(* float(s) of a text s: <<v>> (tenths), or <<>> when Python raises        *)
(* ValueError. Accepted: [+-] digits [ "." [digit] ]; the texts of this    *)
(* model carry at most one fraction digit.                                 *)
(***************************************************************************)
ParseFloat(s) ==
    LET signed == Len(s) > 0 /\ s[1] \in {"-", "+"}
        body == IF signed THEN Tail(s) ELSE s
        dots == {i \in 1..Len(body) : body[i] = "."}
        ip == IF dots = {} THEN body
              ELSE SubSeq(body, 1, (CHOOSE i \in dots : TRUE) - 1)
        fp == IF dots = {} THEN <<>>
              ELSE SubSeq(body, (CHOOSE i \in dots : TRUE) + 1, Len(body))
        ok == /\ Cardinality(dots) <= 1
              /\ Len(ip) > 0 /\ AllDigits(ip)
              /\ Len(fp) <= 1 /\ AllDigits(fp)
        mag == 10 * DigitsValue(ip) + (IF Len(fp) = 1 THEN DigitValue(fp[1]) ELSE 0)
    IN  IF ~ok THEN <<>>
        ELSE IF signed /\ s[1] = "-" THEN <<-mag>> ELSE <<mag>>

(***************************************************************************)
(* The log files. A tick record maps each command to the response of its   *)
(* query; the row or entry written for it holds the timestamp and, per     *)
(* command, str(response.value) or the null marker.                        *)
(***************************************************************************)
\* the clock counts half seconds (the sleep of monitor_live_data is one unit)
Second == 2

\* datetime.now().strftime("%Y%m%d_%H%M%S") at clock reading t: whole seconds
strftime(t) == IntDigits(t \div Second)

\* the name of the log file of a session created at clock reading t
file_name(t, ext) == <<"obd_log_">> \o strftime(t) \o <<ext>>

\* datetime.now().isoformat() at clock reading t: the full reading
isoformat(t) == <<"T">> \o IntDigits(t)

NULL == <<"N", "U", "L", "L">>

csv_headers == <<"Timestamp">> \o Commands

\* a row whose values are in the reverse of the commands' order
csv_row_reversed(t, rec) ==
    <<isoformat(t)>> \o
    [i \in 1..Len(Commands) |->
        LET c == Commands[Len(Commands) + 1 - i]
        IN  IF ~is_null(rec[c]) THEN Str(value(rec[c])) ELSE NULL]

\* the row log_to_csv builds in one tick
csv_row(t, rec) ==
    <<isoformat(t)>> \o
    [i \in 1..Len(Commands) |->
        IF ~is_null(rec[Commands[i]]) THEN Str(value(rec[Commands[i]])) ELSE NULL]

\* a JSON value of the log: a string, or null (Python None)
JsonString(s) == [null |-> FALSE, s |-> s]

JsonNone == [null |-> TRUE, s |-> <<>>]

\* the entry log_to_json builds in one tick
json_entry(t, rec) ==
    [timestamp |-> isoformat(t), hasData |-> TRUE,
     data |-> [c \in CommandSet |->
                 IF ~is_null(rec[c]) THEN JsonString(Str(value(rec[c]))) ELSE JsonNone]]

(***************************************************************************)
(* Offline analysis: _analyze_csv and _analyze_json.                       *)
(***************************************************************************)
\* float('inf') and float('-inf'): beyond every reading and every sum
PosInf == 1000000

NegInf == -1000000

Min2(a, b) == IF b < a THEN b ELSE a

Max2(a, b) == IF b > a THEN b ELSE a

\* the entry a parameter starts with
NewStatZero == [min |-> 0, max |-> 0, values |-> <<>>]

NewStat == [min |-> PosInf, max |-> NegInf, values |-> <<>>]

\* one parsed value folded into a parameter's entry
Observe(stat, v) ==
    [min |-> Min2(stat.min, v), max |-> Max2(stat.max, v),
     values |-> Append(stat.values, v)]

(***************************************************************************)
(* Float arithmetic. float(...) values are floats and sum() adds them from *)
(* the left, rounding each partial sum to the significand: MantissaBits    *)
(* bits in this model (53 in the build), round half to even.               *)
(***************************************************************************)
MantissaBits == 12

RECURSIVE Pow2(_)
Pow2(e) == IF e = 0 THEN 1 ELSE 2 * Pow2(e - 1)

RECURSIVE Exponent(_)
\* the least e for which n \div 2^e fits the significand (n >= 0)
Exponent(n) == IF n < Pow2(MantissaBits) THEN 0 ELSE 1 + Exponent(n \div 2)

\* the float nearest to the number n
Round(n) ==
    LET a == IF n < 0 THEN -n ELSE n
        e == Exponent(a)
        q == a \div Pow2(e)
        r == a % Pow2(e)
        up == 2 * r > Pow2(e) \/ (2 * r = Pow2(e) /\ q % 2 = 1)
        m == (IF up THEN q + 1 ELSE q) * Pow2(e)
    IN  IF n < 0 THEN -m ELSE m

\* a + b of two floats
fadd(a, b) == Round(a + b)

RECURSIVE Sum(_)
\* sum(values): 0 + values[0] + values[1] + ..., each addition rounded
Sum(s) == IF s = <<>> THEN 0 ELSE fadd(Sum(SubSeq(s, 1, Len(s) - 1)), s[Len(s)])

RECURSIVE Gcd(_, _)
Gcd(a, b) == IF b = 0 THEN a ELSE Gcd(b, a % b)

Abs(n) == IF n < 0 THEN -n ELSE n

\* the quotient num / den (den > 0) as a fraction in lowest terms
Quotient(num, den) ==
    LET g == Gcd(Abs(num), den)
    IN  [num |-> num \div g, den |-> den \div g]

\* "Calculate averages": avg only when values were seen, values dropped.
\* avg is <<>> when the key is absent, <<q>> when it is q.
Finish(stat) ==
    [min |-> stat.min, max |-> stat.max,
     avg |-> IF stat.values # <<>>
             THEN <<Quotient(Sum(stat.values), Len(stat.values))>>
             ELSE <<>>]

\* row[header] of csv.DictReader: <<cell>>, or <<>> (None) for a short row
CsvField(row, k) == IF k <= Len(row) THEN <<row[k]>> ELSE <<>>

RECURSIVE csv_row_fold(_, _, _, _)
\* "for header in headers" over one row, from the j-th header on
csv_row_fold(acc, headers, row, j) ==
    IF j > Len(headers) THEN acc
    ELSE LET field == CsvField(row, j + 1)
             parsed == IF field = <<>> THEN <<>> ELSE ParseFloat(field[1])
             next == IF parsed = <<>> THEN acc
                     ELSE [acc EXCEPT ![headers[j]] = Observe(@, parsed[1])]
         IN  csv_row_fold(next, headers, row, j + 1)

RECURSIVE csv_fold(_, _, _)
\* "for row in reader"
csv_fold(acc, headers, rows) ==
    IF rows = <<>> THEN acc
    ELSE csv_fold(csv_row_fold(acc, headers, rows[1], 1), headers, Tail(rows))

\* the entries of _analyze_csv before "Calculate averages"
csv_accumulate(file) ==
    LET headers == Tail(file.header)
        names == {headers[i] : i \in 1..Len(headers)}
    IN  csv_fold([h \in names |-> NewStat], headers, file.rows)

\* reader.fieldnames is None for a file without a header line: None[1:] fails
csv_raises(file) == file.header = <<>>

\* the mapping {"parameters": parameters}
Analysis(parameters) == [empty |-> FALSE, parameters |-> parameters]

analyze_csv(file) ==
    LET acc == csv_accumulate(file)
    IN  Analysis([h \in DOMAIN acc |-> Finish(acc[h])])

\* the test "value is not None" guarding the update in _analyze_json
JsonKeepTruthy(parsed) == parsed # <<>> /\ parsed[1] # 0

JsonKeep(parsed) == parsed # <<>>

\* one (param, value) item of an entry folded into the analysis
json_item(acc, param, val) ==
    LET seen == IF param \in DOMAIN acc THEN acc
                ELSE [p \in DOMAIN acc \cup {param} |->
                        IF p = param THEN NewStat ELSE acc[p]]
        parsed == IF val.null THEN <<>> ELSE ParseFloat(val.s)
    IN  IF JsonKeep(parsed)
        THEN [seen EXCEPT ![param] = Observe(@, parsed[1])]
        ELSE seen

RECURSIVE json_entry_fold(_, _, _)
\* "for param, value in entry['data'].items()", in insertion order
json_entry_fold(acc, entry, j) ==
    IF j > Len(Commands) THEN acc
    ELSE IF Commands[j] \in DOMAIN entry.data
         THEN json_entry_fold(json_item(acc, Commands[j], entry.data[Commands[j]]),
                              entry, j + 1)
         ELSE json_entry_fold(acc, entry, j + 1)

RECURSIVE json_fold(_, _)
\* "for entry in data"
json_fold(acc, entries) ==
    IF entries = <<>> THEN acc
    ELSE json_fold(json_entry_fold(acc, entries[1], 1), Tail(entries))

\* the entries of _analyze_json before "Calculate averages"
json_accumulate(file) == json_fold(<<>>, file.data)

\* json.load fails on a malformed file, entry["data"] on an entry without it
json_raises(file) ==
    \/ ~file.parsable
    \/ \E i \in 1..Len(file.data) : ~file.data[i].hasData

analyze_json(file) ==
    LET acc == json_accumulate(file)
    IN  Analysis([h \in DOMAIN acc |-> Finish(acc[h])])

\* the empty mapping {}
EmptyDict == [empty |-> TRUE, parameters |-> <<>>]

\* analyze_log_file on a file of extension ext: {} for a missing file, an
\* unsupported extension and any exception of the analysis
analyze_log_file(ext, file) ==
    IF ~file.exists THEN EmptyDict
    ELSE IF ext = "csv"
         THEN IF csv_raises(file) THEN EmptyDict ELSE analyze_csv(file)
    ELSE IF ext = "json"
         THEN IF json_raises(file) THEN EmptyDict ELSE analyze_json(file)
    ELSE EmptyDict

(***************************************************************************)
(* The live monitor of the diagnostic tool (obd_reader.py): the values it  *)
(* keeps per key for a run of tick records, and what its caller prints.    *)
(***************************************************************************)
RECURSIVE monitor_collect(_, _)
\* data[key] after the ticks recs: the values of the non-null responses
monitor_collect(recs, c) ==
    IF recs = <<>> THEN <<>>
    ELSE LET rest == monitor_collect(SubSeq(recs, 1, Len(recs) - 1), c)
             r == recs[Len(recs)][c]
         IN  IF ~is_null(r) THEN Append(rest, value(r)) ELSE rest

\* the caller's "if values: avg = sum(values) / len(values)"
caller_average(values) ==
    IF values # <<>> THEN <<Quotient(Sum(values), Len(values))>> ELSE <<>>

(***************************************************************************)
(* State.                                                                  *)
(***************************************************************************)
VARIABLES
    connection,  \* self.connection: 0 is None, k the k-th adapter object built
    adapters,    \* the adapter objects built so far (obd.OBD instances)
    queried,     \* history: the kinds of query calls made on the adapter
    now,         \* the clock (time.time(), datetime.now())
    pc,          \* the operation the foreground caller is inside
    startTime,   \* start_time of the running loop
    duration,    \* its duration argument
    interval,    \* its interval argument
    csvFile,     \* the CSV log on disk
    csvBuf,      \* rows written to the open CSV handle, not yet on disk
    jsonFile,    \* the JSON log on disk
    data,        \* log_to_json's list of entries
    samples,     \* history: the tick records of the ticks completed in this run
    ret,         \* the value the last operation returned
    lastTick,    \* history: <<>> or <<out>>, the query outcomes of the last tick
    analysis,    \* <<>> or <<r>>: what the last analyze_log_file returned
    corrupted,   \* history: which entry of which log was damaged on disk
    sessions,    \* history: the log file names of the logging sessions so far
    storage,     \* the medium of the log directory: "ok" or "failing"
    runError,    \* what the last logging run reported through logging.error
    dtc,         \* <<>> or <<r>>: the adapter's answer in the last get_dtc_codes
                 \* and the list the call returned
    logging,     \* OBDDataLogger.logging, the flag of continuous_monitor
    monitoring,  \* OBDDashboard.monitoring, the flag of update_data
    threads,     \* the background threads started, each with its position
    stopRequest, \* history: the logging session stop_monitoring was last
                 \* called in (its number in sessions), 0 if in none
    after,       \* the callbacks handed to root.after, not yet run
    buttons,     \* which dashboard buttons are enabled
    status,      \* the dashboard's status bar (status_var)
    labels,      \* the text of the dashboard's data labels
    destroyed    \* root.destroy() was called

\* the object's connection and the adapter behind it
adapterVars == <<connection, adapters, queried>>

\* the foreground caller of the logger: a bounded run, its logs, the analysis
runVars == <<now, pc, startTime, duration, interval, csvFile, csvBuf, jsonFile,
             data, samples, ret, lastTick, analysis, corrupted,
             sessions, storage, runError, dtc>>

\* the background threads and the dashboard's widgets
threadVars == <<logging, monitoring, threads, stopRequest>>

guiVars == <<after, buttons, status, labels, destroyed>>

vars == <<adapterVars, runVars, threadVars, guiVars>>

\* no operation has returned yet
NotReturned == "not returned"

NoCsvFile == [exists |-> FALSE, header |-> <<>>, rows |-> <<>>]

NoJsonFile == [exists |-> FALSE, parsable |-> TRUE, data |-> <<>>]

NotCorrupted == [ext |-> "", at |-> 0, how |-> ""]

\* the text "--" of a data label without a value
NoValue == <<"-", "-">>

(***************************************************************************)
(* The adapter (python-obd's OBD object), as the code uses it.             *)
(***************************************************************************)
\* obd.OBD(): a fresh object, connected or not, with its supported commands
NewAdapter(connected, supported) ==
    [connected |-> connected, supported |-> supported, closes |-> 0]

\* what a query of command c can yield on adapter ad, when a live adapter
\* that supports c yields one of answers[c]: an adapter that is not
\* connected, was closed or does not support c answers null
Answers(ad, c, answers) ==
    IF ad.connected /\ ad.closes = 0 /\ c \in ad.supported
    THEN answers[c]
    ELSE {NullResponse}

\* the outcomes of the queries of one tick, one per command
TickOutcomes(ad, answers) ==
    {out \in [CommandSet -> UNION {Answers(ad, c, answers) : c \in CommandSet}] :
        \A c \in CommandSet : out[c] \in Answers(ad, c, answers)}

\* the position in Commands of the first query that raises, 0 if none does
FirstRaise(out) ==
    IF \E j \in 1..Len(Commands) : raised(out[Commands[j]])
    THEN CHOOSE j \in 1..Len(Commands) :
            /\ raised(out[Commands[j]])
            /\ \A i \in 1..(j - 1) : ~raised(out[Commands[i]])
    ELSE 0

\* history of one call self.connection.query(c): the command, and whether the
\* adapter was connected, supported the command and had been closed
QueryOf(ad, c) ==
    [cmd |-> c, connected |-> ad.connected, supported |-> c \in ad.supported,
     closed |-> ad.closes > 0]

\* the query calls "for cmd in commands: self.connection.query(cmd)" makes
\* before the loop ends or a query raises: every command, supported or not
QueriesOfTick(ad, out) ==
    LET last == IF FirstRaise(out) = 0 THEN Len(Commands) ELSE FirstRaise(out)
    IN  {QueryOf(ad, Commands[i]) : i \in 1..last}

(***************************************************************************)
(* OBDDataLogger.connect and close.                                        *)
(***************************************************************************)
\* a connect that reports success whatever the adapter reports
is_connected_always(up) == "True"

\* "return self.connection.is_connected()", for an adapter that is up or not
is_connected(up) == IF up THEN "True" ELSE "False"

\* connect(): obd.OBD() raises (nothing is assigned), or builds an adapter
\* object that is assigned whether or not it reports connected
connect ==
    /\ pc = "idle"
    /\ Len(adapters) < MaxConnects
    /\ \/ /\ ret' = "False"
          /\ UNCHANGED <<connection, adapters>>
       \/ \E up \in BOOLEAN, sup \in SUBSET CommandSet :
            /\ up \/ sup = {}
            /\ adapters' = Append(adapters, NewAdapter(up, sup))
            /\ connection' = Len(adapters) + 1
            /\ ret' = is_connected(up)
    /\ UNCHANGED <<queried, now, pc, startTime, duration, interval, csvFile,
                   csvBuf, jsonFile, data, samples, analysis, corrupted,
                   lastTick>>
    /\ UNCHANGED <<threadVars, guiVars, sessions, storage, runError, dtc>>

\* close(): "if self.connection: self.connection.close()"; the field keeps
\* the object
close ==
    /\ pc = "idle"
    /\ connection # 0
    /\ adapters[connection].closes < MaxCloses
    /\ adapters' = [adapters EXCEPT ![connection].closes = @ + 1]
    /\ ret' = "None"
    /\ UNCHANGED <<connection, queried, now, pc, startTime, duration, interval,
                   csvFile, csvBuf, jsonFile, data, samples, analysis, corrupted,
                   lastTick>>
    /\ UNCHANGED <<threadVars, guiVars, sessions, storage, runError, dtc>>

(***************************************************************************)
(* OBDDataLogger.log_to_csv. The rows go to the open handle; the file on   *)
(* disk gets them when the with-block closes it (the logs of this model    *)
(* are far shorter than the handle's buffer).                              *)
(***************************************************************************)
\* a while test that lets a tick start when the elapsed time equals the duration
while_test_inclusive == now - startTime <= duration

\* "while time.time() - start_time < duration", the test of the bounded loops
while_test == now - startTime < duration

NoBuffer == [open |-> FALSE, header |-> <<>>, rows |-> <<>>]

\* leaving "with open(csv_file, 'w')": the buffer is flushed, the file closed
CloseCsv(buf) == [exists |-> TRUE, header |-> buf.header, rows |-> buf.rows]

\* a writer that puts each new row before the rows written so far
writerow_first(rows, row) == <<row>> \o rows

\* writer.writerow(row): the row goes after the rows written so far
writerow(rows, row) == Append(rows, row)

\* an exception handler that logs the error and lets the loop go on
handler_continue(p) == p

\* "except Exception as e: logging.error(...); return ''": the call is over
handler(p) == "idle"

\* leaving the with-block on a medium that may be failing: the flush of a
\* failing medium raises and the buffered rows are lost
CloseCsvOn(st, buf) ==
    IF st = "ok" THEN CloseCsv(buf)
    ELSE [exists |-> TRUE, header |-> <<>>, rows |-> <<>>]

\* whether a writerow has to flush the handle's buffer: the model does not
\* count the buffer's bytes; on a failing medium such a flush raises
Flushes == IF storage = "failing" THEN BOOLEAN ELSE {FALSE}

\* the call, up to the first test of the while loop; open raises on a
\* failing medium
log_to_csv_begin(d, iv) ==
    /\ pc = "idle"
    /\ IF connection = 0
       THEN /\ ret' = ""
            /\ runError' = "No connection established"
            /\ UNCHANGED <<pc, startTime, duration, interval, csvFile, csvBuf,
                           samples, sessions>>
       ELSE IF storage = "failing"
       THEN /\ ret' = ""
            /\ runError' = "open"
            /\ sessions' = Append(sessions, file_name(now, ".csv"))
            /\ UNCHANGED <<pc, startTime, duration, interval, csvFile, csvBuf,
                           samples>>
       ELSE /\ csvFile' = [exists |-> TRUE, header |-> <<>>, rows |-> <<>>]
            /\ csvBuf' = [open |-> TRUE, header |-> csv_headers, rows |-> <<>>]
            /\ startTime' = now
            /\ duration' = Second * d
            /\ interval' = Second * iv
            /\ samples' = <<>>
            /\ pc' = "csv"
            /\ sessions' = Append(sessions, file_name(now, ".csv"))
            /\ runError' = ""
            /\ UNCHANGED ret
    /\ UNCHANGED <<connection, adapters, queried, now, jsonFile, data, analysis,
                   corrupted, lastTick>>
    /\ UNCHANGED <<threadVars, guiVars, storage, dtc>>

\* one pass of the while loop: the row's timestamp, one query per command,
\* writerow, sleep(interval); a raising query or a raising writerow leaves
\* through the handler, the with-block closing the file on the way
log_to_csv_tick(answers, latencies) ==
    /\ pc = "csv"
    /\ while_test
    /\ \E out \in TickOutcomes(adapters[connection], answers), lat \in latencies,
          flush \in Flushes :
         /\ queried' = queried \cup QueriesOfTick(adapters[connection], out)
         /\ lastTick' = <<out>>
         /\ IF FirstRaise(out) = 0 /\ ~flush
            THEN /\ csvBuf' = [csvBuf EXCEPT !.rows = writerow(@, csv_row(now, out))]
                 /\ samples' = Append(samples, out)
                 /\ now' = now + lat + interval
                 /\ UNCHANGED <<pc, csvFile, ret, runError>>
            ELSE /\ csvFile' = CloseCsvOn(storage, csvBuf)
                 /\ csvBuf' = NoBuffer
                 /\ now' = now + lat
                 /\ ret' = ""
                 /\ runError' = IF FirstRaise(out) # 0 THEN "query" ELSE "write"
                 /\ pc' = handler(pc)
                 /\ UNCHANGED samples
    /\ UNCHANGED <<connection, adapters, startTime, duration, interval, jsonFile,
                   data, analysis, corrupted>>
    /\ UNCHANGED <<threadVars, guiVars, sessions, storage, dtc>>

\* the while test fails: the file is closed and its name returned; on a
\* failing medium the close raises
log_to_csv_return ==
    /\ pc = "csv"
    /\ ~while_test
    /\ csvFile' = CloseCsvOn(storage, csvBuf)
    /\ csvBuf' = NoBuffer
    /\ ret' = IF storage = "ok" THEN "obd_log.csv" ELSE ""
    /\ runError' = IF storage = "ok" THEN runError ELSE "write"
    /\ pc' = "idle"
    /\ UNCHANGED <<connection, adapters, queried, now, startTime, duration,
                   interval, jsonFile, data, samples, analysis, corrupted,
                   lastTick>>
    /\ UNCHANGED <<threadVars, guiVars, sessions, storage, dtc>>

(***************************************************************************)
(* OBDDataLogger.log_to_json. The entries are kept in a list; the file is  *)
(* written once, after the loop.                                           *)
(***************************************************************************)
log_to_json_begin(d, iv) ==
    /\ pc = "idle"
    /\ IF connection = 0
       THEN /\ ret' = ""
            /\ runError' = "No connection established"
            /\ UNCHANGED <<pc, startTime, duration, interval, data, samples,
                           sessions>>
       ELSE /\ data' = <<>>
            /\ startTime' = now
            /\ duration' = Second * d
            /\ interval' = Second * iv
            /\ samples' = <<>>
            /\ pc' = "json"
            /\ sessions' = Append(sessions, file_name(now, ".json"))
            /\ runError' = ""
            /\ UNCHANGED ret
    /\ UNCHANGED <<connection, adapters, queried, now, csvFile, csvBuf, jsonFile,
                   analysis, corrupted, lastTick>>
    /\ UNCHANGED <<threadVars, guiVars, storage, dtc>>

log_to_json_tick(answers, latencies) ==
    /\ pc = "json"
    /\ while_test
    /\ \E out \in TickOutcomes(adapters[connection], answers), lat \in latencies :
         /\ queried' = queried \cup QueriesOfTick(adapters[connection], out)
         /\ lastTick' = <<out>>
         /\ IF FirstRaise(out) = 0
            THEN /\ data' = Append(data, json_entry(now, out))
                 /\ samples' = Append(samples, out)
                 /\ now' = now + lat + interval
                 /\ UNCHANGED <<pc, ret, runError>>
            ELSE /\ now' = now + lat
                 /\ ret' = ""
                 /\ runError' = "query"
                 /\ pc' = handler(pc)
                 /\ UNCHANGED <<data, samples>>
    /\ UNCHANGED <<connection, adapters, startTime, duration, interval, csvFile,
                   csvBuf, jsonFile, analysis, corrupted>>
    /\ UNCHANGED <<threadVars, guiVars, sessions, storage, dtc>>

\* the while test fails: json.dump writes the whole list; on a failing
\* medium open raises, or json.dump raises and leaves a torn file
log_to_json_return ==
    /\ pc = "json"
    /\ ~while_test
    /\ IF storage = "ok"
       THEN /\ jsonFile' = [exists |-> TRUE, parsable |-> TRUE, data |-> data]
            /\ ret' = "obd_log.json"
            /\ UNCHANGED runError
       ELSE /\ \/ UNCHANGED jsonFile
               \/ jsonFile' = [exists |-> TRUE, parsable |-> FALSE, data |-> <<>>]
            /\ ret' = ""
            /\ runError' = "write"
    /\ pc' = "idle"
    /\ UNCHANGED <<connection, adapters, queried, now, startTime, duration,
                   interval, csvFile, csvBuf, data, samples, analysis, corrupted,
                   lastTick>>
    /\ UNCHANGED <<threadVars, guiVars, sessions, storage, dtc>>

\* the environment: the medium of the log directory starts failing
storage_fails ==
    /\ storage = "ok"
    /\ storage' = "failing"
    /\ UNCHANGED <<adapterVars, now, pc, startTime, duration, interval, csvFile,
                   csvBuf, jsonFile, data, samples, ret, lastTick, analysis,
                   corrupted, sessions, runError, dtc, threadVars, guiVars>>

(***************************************************************************)
(* OBDDiagnosticTool.monitor_live_data. Its sleep of half a second is one  *)
(* unit of the clock.                                                      *)
(* The queries are not guarded: an exception leaves the call.              *)
(***************************************************************************)
\* the queries one pass of monitor_live_data makes: the supported commands,
\* up to the first that raises
LiveQueriesOfTick(ad, out) ==
    LET last == IF FirstRaise(out) = 0 THEN Len(Commands) ELSE FirstRaise(out)
    IN  {QueryOf(ad, Commands[i]) :
            i \in {j \in 1..last : Commands[j] \in ad.supported}}

\* the call, up to the first test of the while loop
monitor_live_data_begin(d) ==
    /\ pc = "idle"
    /\ IF connection = 0
       THEN /\ ret' = "{}"
            /\ UNCHANGED <<pc, startTime, duration, interval, data, samples>>
       ELSE /\ data' = [c \in CommandSet |-> <<>>]
            /\ startTime' = now
            /\ duration' = Second * d
            /\ interval' = 1
            /\ samples' = <<>>
            /\ pc' = "live"
            /\ UNCHANGED ret
    /\ UNCHANGED <<connection, adapters, queried, now, csvFile, csvBuf, jsonFile,
                   analysis, corrupted, lastTick>>
    /\ UNCHANGED <<threadVars, guiVars, sessions, storage, runError, dtc>>

\* one pass of the while loop: one query per supported command, the value
\* of each non-null response appended to its list, sleep(0.5)
monitor_live_data_tick(answers, latencies) ==
    /\ pc = "live"
    /\ while_test
    /\ \E out \in TickOutcomes(adapters[connection], answers), lat \in latencies :
         /\ queried' = queried \cup LiveQueriesOfTick(adapters[connection], out)
         /\ lastTick' = <<out>>
         /\ IF FirstRaise(out) = 0
            THEN /\ samples' = Append(samples, out)
                 /\ data' = [c \in CommandSet |-> monitor_collect(samples', c)]
                 /\ now' = now + lat + interval
                 /\ UNCHANGED <<pc, ret>>
            ELSE /\ now' = now + lat
                 /\ ret' = "raised"
                 /\ pc' = "idle"
                 /\ UNCHANGED <<data, samples>>
    /\ UNCHANGED <<connection, adapters, startTime, duration, interval, csvFile,
                   csvBuf, jsonFile, analysis, corrupted>>
    /\ UNCHANGED <<threadVars, guiVars, sessions, storage, runError, dtc>>

\* the while test fails: the lists are returned
monitor_live_data_return ==
    /\ pc = "live"
    /\ ~while_test
    /\ ret' = "data"
    /\ pc' = "idle"
    /\ UNCHANGED <<connection, adapters, queried, now, startTime, duration,
                   interval, csvFile, csvBuf, jsonFile, data, samples, analysis,
                   corrupted, lastTick>>
    /\ UNCHANGED <<threadVars, guiVars, sessions, storage, runError, dtc>>

(***************************************************************************)
(* OBDDataLogger.analyze_log_file, called on one of the two logs.          *)
(***************************************************************************)
\* the call was left by an exception of the existence test
OSErrorRaised == [raised |-> "OSError"]

\* what the file system does to the call: nothing, or, on a failing medium,
\* the stat of Path(log_file).exists() or the reading of the file fails
FileOutcomes ==
    IF storage = "failing" THEN {"ok", "read fails", "stat fails"} ELSE {"ok"}

\* analyze_log_file(log_file). The existence test stands before the try
\* block: an OSError of the stat that exists() does not swallow leaves the
\* call; a failure of the reading is caught and gives {}
analyze(ext) ==
    /\ pc = "idle"
    /\ \E outcome \in FileOutcomes :
         analysis' =
            <<[ext |-> ext,
               result |->
                 IF outcome = "stat fails" THEN OSErrorRaised
                 ELSE IF outcome = "read fails" THEN EmptyDict
                 ELSE analyze_log_file(ext,
                        IF ext = "csv" THEN csvFile ELSE jsonFile)]>>
    /\ UNCHANGED <<connection, adapters, queried, now, pc, startTime, duration,
                   interval, csvFile, csvBuf, jsonFile, data, samples, ret,
                   corrupted,
                   lastTick>>
    /\ UNCHANGED <<threadVars, guiVars, sessions, storage, runError, dtc>>

(***************************************************************************)
(* Damage to a log on disk (the environment): one entry of a written log   *)
(* is corrupted.                                                           *)
(***************************************************************************)
\* text that is no number
Garbage == <<"#", "8">>

RemoveAt(s, i) == SubSeq(s, 1, i - 1) \o SubSeq(s, i + 1, Len(s))

\* row i of the CSV log: its j-th value replaced by garbage (j >= 1), or the
\* row cut after its timestamp (j = 0)
damage_csv(i, j) ==
    /\ pc = "idle"
    /\ corrupted = NotCorrupted
    /\ csvFile.exists
    /\ i \in 1..Len(csvFile.rows)
    /\ j \in 0..Len(Commands)
    /\ csvFile' = [csvFile EXCEPT !.rows[i] =
                     IF j = 0 THEN <<@[1]>> ELSE [@ EXCEPT ![j + 1] = Garbage]]
    /\ corrupted' = [ext |-> "csv", at |-> i,
                     how |-> IF j = 0 THEN "cut" ELSE "garbled"]
    /\ UNCHANGED <<connection, adapters, queried, now, pc, startTime, duration,
                   interval, csvBuf, jsonFile, data, samples, ret, analysis,
                   lastTick>>
    /\ UNCHANGED <<threadVars, guiVars, sessions, storage, runError, dtc>>

\* entry i of the JSON log: a value replaced by a garbage string ("garbled"),
\* the entry left without its "data" member ("no data"), or the entry torn so
\* that the file is no longer JSON ("torn")
damage_json(i, how) ==
    /\ pc = "idle"
    /\ corrupted = NotCorrupted
    /\ jsonFile.exists
    /\ i \in 1..Len(jsonFile.data)
    /\ \/ /\ how = "garbled"
          /\ \E c \in CommandSet :
               jsonFile' = [jsonFile EXCEPT !.data[i].data[c] = JsonString(Garbage)]
       \/ /\ how = "no data"
          /\ jsonFile' = [jsonFile EXCEPT !.data[i] =
                            [timestamp |-> @.timestamp, hasData |-> FALSE,
                             data |-> <<>>]]
       \/ /\ how = "torn"
          /\ jsonFile' = [jsonFile EXCEPT !.parsable = FALSE]
    /\ corrupted' = [ext |-> "json", at |-> i, how |-> how]
    /\ UNCHANGED <<connection, adapters, queried, now, pc, startTime, duration,
                   interval, csvFile, csvBuf, data, samples, ret, analysis,
                   lastTick>>
    /\ UNCHANGED <<threadVars, guiVars, sessions, storage, runError, dtc>>

(***************************************************************************)
(* SpecAgg: one logging run of a connected logger over every sequence of   *)
(* tick records (each value a reading or absent), then an analysis.        *)
(* SpecReplay: the same, the log possibly damaged in one entry before it   *)
(* is analysed.                                                            *)
(***************************************************************************)
\* a live adapter answers a reading or null
RichAnswers == [c \in CommandSet |-> {<<v>> : v \in Readings(c)} \cup {NullResponse}]

InitConnected ==
    /\ connection = 1
    /\ adapters = <<NewAdapter(TRUE, CommandSet)>>
    /\ queried = {}
    /\ now = 0
    /\ pc = "idle"
    /\ startTime = 0
    /\ duration = 0
    /\ interval = 1
    /\ csvFile = NoCsvFile
    /\ csvBuf = NoBuffer
    /\ jsonFile = NoJsonFile
    /\ data = <<>>
    /\ samples = <<>>
    /\ ret = NotReturned
    /\ lastTick = <<>>
    /\ analysis = <<>>
    /\ corrupted = NotCorrupted
    /\ sessions = <<>>
    /\ storage = "ok"
    /\ runError = ""
    /\ dtc = <<>>
    /\ logging = FALSE
    /\ stopRequest = 0
    /\ monitoring = FALSE
    /\ threads = <<>>
    /\ after = <<>>
    /\ buttons = [connect |-> TRUE, start |-> TRUE, stop |-> FALSE]
    /\ status = "Ready"
    /\ labels = [c \in CommandSet |-> NoValue]
    /\ destroyed = FALSE

NextAgg ==
    \/ \E d \in 0..MaxDuration : ret = NotReturned /\ log_to_csv_begin(d, 1)
    \/ log_to_csv_tick(RichAnswers, {0})
    \/ log_to_csv_return
    \/ \E d \in 0..MaxDuration : ret = NotReturned /\ log_to_json_begin(d, 1)
    \/ log_to_json_tick(RichAnswers, {0})
    \/ log_to_json_return
    \/ \E ext \in {"csv", "json"} :
         ret \notin {NotReturned, ""} /\ analysis = <<>> /\ analyze(ext)

SpecAgg == InitConnected /\ [][NextAgg]_vars

NextReplay ==
    \/ NextAgg
    \/ \E i \in 1..MaxDuration, j \in 0..Len(Commands) :
         analysis = <<>> /\ damage_csv(i, j)
    \/ \E i \in 1..MaxDuration, how \in {"garbled", "no data", "torn"} :
         analysis = <<>> /\ damage_json(i, how)

SpecReplay == InitConnected /\ [][NextReplay]_vars

(***************************************************************************)
(* What the claims about the analysis speak of.                            *)
(***************************************************************************)
\* the log the finished run wrote was analysed as it was written
AnalysedIntact ==
    /\ analysis # <<>>
    /\ corrupted = NotCorrupted
    /\ ret = IF analysis[1].ext = "csv" THEN "obd_log.csv" ELSE "obd_log.json"

\* the number of non-absent readings of command c in the run
NonAbsent(c) == Cardinality({i \in 1..Len(samples) : ~is_null(samples[i][c])})

\* the values of the non-absent readings of command c in the run
Observed(c) == {value(samples[i][c]) : i \in {k \in 1..Len(samples) : ~is_null(samples[k][c])}}

\* the entries of the analysed log before the averages are taken
Accumulated ==
    IF analysis[1].ext = "csv" THEN csv_accumulate(csvFile) ELSE json_accumulate(jsonFile)

\* the minimum and the maximum of a non-empty set of numbers
SetMin(S) == CHOOSE m \in S : \A v \in S : m <= v

SetMax(S) == CHOOSE m \in S : \A v \in S : m >= v

\* the statistics of command c computed from the in-memory samples of the
\* run: the average as the live monitor's caller takes it, min and max of the
\* values kept, each <<>> when there is none
OnlineStats(c) ==
    LET values == monitor_collect(samples, c)
        S == {values[i] : i \in 1..Len(values)}
    IN  [min |-> IF S = {} THEN <<>> ELSE <<SetMin(S)>>,
         max |-> IF S = {} THEN <<>> ELSE <<SetMax(S)>>,
         avg |-> caller_average(values)]

\* the statistics of command c in the analysis returned, <<>> for what the
\* mapping does not hold
OfflineStats(c) ==
    LET P == analysis[1].result.parameters
    IN  IF c \in DOMAIN P
        THEN [min |-> <<P[c].min>>, max |-> <<P[c].max>>, avg |-> P[c].avg]
        ELSE [min |-> <<>>, max |-> <<>>, avg |-> <<>>]

(***************************************************************************)
(* C1. The min, max and average computed online from the in-memory         *)
(* samples are identical to those analyze_log_file returns for the log     *)
(* written for the same samples.                                           *)
(***************************************************************************)
C1_OnlineEqualsOffline ==
    AnalysedIntact => \A c \in CommandSet : OnlineStats(c) = OfflineStats(c)

\* C1, for the parameters with at least one non-absent reading, and the
\* average of every parameter: here the two computations agree
C1_AgreeWhereObserved ==
    AnalysedIntact =>
        \A c \in CommandSet :
            /\ OnlineStats(c).avg = OfflineStats(c).avg
            /\ NonAbsent(c) > 0 => OnlineStats(c) = OfflineStats(c)

(***************************************************************************)
(* C2. In an analysis of a log of at least one tick, every requested       *)
(* parameter has an entry; the number of values counted for it is the      *)
(* number of its non-absent readings (an absent reading is not counted, a  *)
(* reading of 0 is), and it has an average exactly when that number is not *)
(* zero: an all-absent parameter has no average, not an average of 0.      *)
(***************************************************************************)
C2_AbsenceExcluded ==
    AnalysedIntact =>
        /\ ~analysis[1].result.empty
        /\ \A c \in CommandSet :
            /\ samples # <<>> => c \in DOMAIN analysis[1].result.parameters
            /\ c \in DOMAIN analysis[1].result.parameters =>
                /\ Len(Accumulated[c].values) = NonAbsent(c)
                /\ (analysis[1].result.parameters[c].avg = <<>>) <=> (NonAbsent(c) = 0)

\* a log was analysed in which one parameter was absent in every tick and
\* another had a reading of 0
C2_Witness ==
    /\ AnalysedIntact
    /\ samples # <<>>
    /\ \E c \in CommandSet : NonAbsent(c) = 0
    /\ \E c \in CommandSet : 0 \in Observed(c)

(***************************************************************************)
(* C3. For every parameter with at least one non-absent reading the        *)
(* analysis has min <= v <= max for every observed v, min and max are      *)
(* observed values and average = sum / count. RPM = [800, 820, absent],    *)
(* SPEED = [0, 5, 7] gives RPM {800, 820, 810} and SPEED {0, 7, 4}.        *)
(***************************************************************************)
ExampleRun ==
    <<[RPM |-> <<8000>>, SPEED |-> <<0>>],
      [RPM |-> <<8200>>, SPEED |-> <<50>>],
      [RPM |-> NullResponse, SPEED |-> <<70>>]>>

ExampleAnalysis ==
    [RPM |-> [min |-> 8000, max |-> 8200, avg |-> <<[num |-> 8100, den |-> 1]>>],
     SPEED |-> [min |-> 0, max |-> 70, avg |-> <<[num |-> 40, den |-> 1]>>]]

C3_MinMaxAverage ==
    AnalysedIntact =>
        /\ \A c \in CommandSet :
            NonAbsent(c) > 0 =>
                LET st == analysis[1].result.parameters[c]
                    values == monitor_collect(samples, c)
                IN  /\ \A v \in Observed(c) : st.min <= v /\ v <= st.max
                    /\ st.min \in Observed(c)
                    /\ st.max \in Observed(c)
                    /\ st.avg # <<>>
                    /\ st.avg[1].den > 0
                    /\ st.avg[1].num * Len(values) = st.avg[1].den * Sum(values)
        /\ samples = ExampleRun =>
            analysis[1].result.parameters = ExampleAnalysis

\* the example run was logged and analysed
C3_Witness == AnalysedIntact /\ samples = ExampleRun

(***************************************************************************)
(* C8. A log with one corrupted entry among valid entries is analysed      *)
(* without failure: the result is the analysis of the valid entries alone. *)
(***************************************************************************)
\* the damaged log without its damaged entry, as it was written
ValidEntriesOnly(ext) ==
    IF ext = "csv"
    THEN [csvFile EXCEPT !.rows = RemoveAt(@, corrupted.at)]
    ELSE [exists |-> TRUE, parsable |-> TRUE,
          data |-> RemoveAt(jsonFile.data, corrupted.at)]

C8_CorruptedEntrySkipped ==
    (/\ analysis # <<>>
     /\ corrupted # NotCorrupted
     /\ analysis[1].ext = corrupted.ext) =>
        /\ ~analysis[1].result.empty
        /\ analysis[1].result =
             analyze_log_file(corrupted.ext, ValidEntriesOnly(corrupted.ext))

(***************************************************************************)
(* Spec: the life of one data logger's connection. The caller connects     *)
(* (the adapter may fail to open, open unconnected, or support only some   *)
(* commands), makes one bounded logging run and closes, in any order. A    *)
(* live adapter answers the one reading PlainAnswers gives a command.      *)
(***************************************************************************)
PlainAnswers ==
    [c \in CommandSet |-> {<<CHOOSE v \in Readings(c) : \A w \in Readings(c) : v <= w>>}]

Init ==
    /\ connection = 0
    /\ adapters = <<>>
    /\ queried = {}
    /\ now = 0
    /\ pc = "idle"
    /\ startTime = 0
    /\ duration = 0
    /\ interval = 1
    /\ csvFile = NoCsvFile
    /\ csvBuf = NoBuffer
    /\ jsonFile = NoJsonFile
    /\ data = <<>>
    /\ samples = <<>>
    /\ ret = NotReturned
    /\ lastTick = <<>>
    /\ analysis = <<>>
    /\ corrupted = NotCorrupted
    /\ sessions = <<>>
    /\ storage = "ok"
    /\ runError = ""
    /\ dtc = <<>>
    /\ logging = FALSE
    /\ stopRequest = 0
    /\ monitoring = FALSE
    /\ threads = <<>>
    /\ after = <<>>
    /\ buttons = [connect |-> TRUE, start |-> TRUE, stop |-> FALSE]
    /\ status = "Ready"
    /\ labels = [c \in CommandSet |-> NoValue]
    /\ destroyed = FALSE

\* no logging run was made yet in this session
NoRunYet == now = 0 /\ ~csvFile.exists /\ ~jsonFile.exists /\ sessions = <<>>

Next ==
    \/ connect
    \/ close
    \/ \E d \in 0..MaxDuration : NoRunYet /\ log_to_csv_begin(d, 1)
    \/ log_to_csv_tick(PlainAnswers, {0})
    \/ log_to_csv_return
    \/ \E d \in 0..MaxDuration : NoRunYet /\ log_to_json_begin(d, 1)
    \/ log_to_json_tick(PlainAnswers, {0})
    \/ log_to_json_return

Spec == Init /\ [][Next]_vars

(***************************************************************************)
(* SpecRun: one logging run of a connected logger in which a query may     *)
(* answer a reading, answer null or raise, and the queries of a tick may   *)
(* take time; the logs are analysed after the run.                         *)
(***************************************************************************)
\* a live adapter answers a reading or null, or the query raises
FaultyAnswers ==
    [c \in CommandSet |-> PlainAnswers[c] \cup {NullResponse, Raises}]

\* the time the queries of one tick may take, in clock units
Latencies == {0, 1}

NextRun ==
    \/ \E d \in 0..MaxDuration : NoRunYet /\ log_to_csv_begin(d, 1)
    \/ log_to_csv_tick(FaultyAnswers, Latencies)
    \/ log_to_csv_return
    \/ \E d \in 0..MaxDuration : NoRunYet /\ log_to_json_begin(d, 1)
    \/ log_to_json_tick(FaultyAnswers, Latencies)
    \/ log_to_json_return
    \/ \E ext \in {"csv", "json"} : analysis = <<>> /\ analyze(ext)

SpecRun == InitConnected /\ [][NextRun]_vars

(***************************************************************************)
(* C4. A query that fails within a tick (answers null or raises) does not  *)
(* abort the tick: the tick's record has an entry for every requested      *)
(* parameter, absent for the failed one, and the loop goes on.             *)
(***************************************************************************)
\* a query of the last tick failed
QueryFailed(c) == is_null(lastTick[1][c]) \/ raised(lastTick[1][c])

C4_FailedQueryKeepsTick ==
    (lastTick # <<>> /\ \E c \in CommandSet : QueryFailed(c)) =>
        /\ ret # ""
        /\ samples # <<>>
        /\ \A c \in CommandSet :
             samples[Len(samples)][c] =
                IF QueryFailed(c) THEN NullResponse ELSE lastTick[1][c]

(***************************************************************************)
(* C7. close() may be called any number of times: the adapter's close is   *)
(* invoked at most once per established connection.                        *)
(***************************************************************************)
C7_AdapterClosedAtMostOnce ==
    \A k \in 1..Len(adapters) : adapters[k].connected => adapters[k].closes <= 1

(***************************************************************************)
(* C9. At every point of a logging run, and after it however it ended,     *)
(* the log file holds the record of every tick that has completed (a row   *)
(* handed to the open CSV handle counts as written).                       *)
(***************************************************************************)
\* the rows written to the CSV log so far, on disk or through its handle
CsvWritten == IF csvBuf.open THEN csvBuf.rows ELSE csvFile.rows

C9_CompletedTicksInLog ==
    \A i \in 1..Len(samples) :
        IF pc = "csv" \/ (pc = "idle" /\ csvFile.exists)
        THEN /\ i <= Len(CsvWritten)
             /\ Tail(CsvWritten[i]) = Tail(csv_row(0, samples[i]))
        ELSE /\ jsonFile.exists
             /\ i <= Len(jsonFile.data)
             /\ jsonFile.data[i].data = json_entry(0, samples[i]).data

(***************************************************************************)
(* C10. No query is sent to the adapter for a parameter outside the        *)
(* supported-command set found at connect time.                            *)
(***************************************************************************)
C10_OnlySupportedQueried == \A q \in queried : q.connected => q.supported


(***************************************************************************)
(* OBDDashboard. The main thread runs the button commands and the          *)
(* callbacks handed to root.after; each start_monitoring starts a thread   *)
(* that runs update_data. A thread is at "check" (the while test), at      *)
(* "wait" (inside self.connection.query of command idx), at "sleep" or     *)
(* "done". Its fields stopped and late are history: a stop_monitoring ran  *)
(* while it was alive, and the ticks it started after that.                *)
(***************************************************************************)
NewThread(target, at) ==
    [target |-> target, pc |-> at, idx |-> 0, on |-> 0, ticks |-> 0,
     stopped |-> FALSE, late |-> 0]

\* history: every thread alive now has seen a stop request
MarkStopped(ths) ==
    [t \in DOMAIN ths |->
        IF ths[t].pc # "done" THEN [ths[t] EXCEPT !.stopped = TRUE] ELSE ths[t]]

\* the body of OBDDashboard.stop_monitoring
StopMonitoring ==
    /\ monitoring' = FALSE
    /\ buttons' = [buttons EXCEPT !.start = TRUE, !.stop = FALSE]
    /\ status' = "Monitoring stopped"

\* OBDDashboard.connect, the command of the connect button
dashboard_connect ==
    /\ ~destroyed
    /\ buttons.connect
    /\ Len(adapters) < MaxConnects
    /\ \/ /\ status' = "Connection error"
          /\ UNCHANGED <<connection, adapters, buttons>>
       \/ \E up \in BOOLEAN :
            /\ adapters' = Append(adapters,
                                  NewAdapter(up, IF up THEN CommandSet ELSE {}))
            /\ connection' = Len(adapters) + 1
            /\ IF up
               THEN /\ buttons' = [buttons EXCEPT !.connect = FALSE, !.start = TRUE]
                    /\ status' = "Connected to OBD adapter"
               ELSE /\ status' = "Connection failed"
                    /\ UNCHANGED buttons
    /\ UNCHANGED <<queried, runVars, threadVars, after, labels, destroyed>>

\* OBDDashboard.start_monitoring, the command of the start button
start_monitoring ==
    /\ ~destroyed
    /\ buttons.start
    /\ Len(threads) < MaxThreads
    /\ IF connection = 0
       THEN UNCHANGED <<monitoring, threads, buttons, status>>
       ELSE /\ monitoring' = TRUE
            /\ buttons' = [buttons EXCEPT !.start = FALSE, !.stop = TRUE]
            /\ status' = "Monitoring started"
            /\ threads' = Append(threads, NewThread("update_data", "check"))
    /\ UNCHANGED <<adapterVars, runVars, logging, stopRequest, after, labels, destroyed>>

\* OBDDashboard.stop_monitoring, the command of the stop button
dashboard_stop_monitoring ==
    /\ ~destroyed
    /\ buttons.stop
    /\ StopMonitoring
    /\ threads' = MarkStopped(threads)
    /\ UNCHANGED <<adapterVars, runVars, logging, stopRequest, after, labels, destroyed>>

\* another thread has a query in flight on the adapter thread t is querying
Concurrent(t) ==
    \E u \in DOMAIN threads :
        u # t /\ threads[u].pc = "wait" /\ threads[u].on = threads[t].on

\* what the query thread t is inside can return. The adapter object has no
\* lock: two queries in flight on one adapter are a race on its port, and
\* each can get the answer to either command, no answer, or an exception
ThreadAnswers(t, answers) ==
    LET ad == adapters[threads[t].on]
        c  == Commands[threads[t].idx]
    IN  IF Concurrent(t)
        THEN UNION {Answers(ad, d, answers) : d \in CommandSet}
                \cup {NullResponse, Raises}
        ELSE Answers(ad, c, answers)

\* thread t enters self.connection.query(Commands[i])
SendQuery(t, i) ==
    /\ threads' = [threads EXCEPT ![t].pc = "wait", ![t].idx = i,
                                  ![t].on = connection]
    /\ queried' = queried \cup {QueryOf(adapters[connection], Commands[i])}

\* the ticks the threads have started, all together
RECURSIVE TicksStarted(_)

TicksStarted(ths) ==
    IF ths = <<>> THEN 0 ELSE Head(ths).ticks + TicksStarted(Tail(ths))

\* thread t starts a tick: the history counts it, and the first query is sent
StartTick(t) ==
    /\ TicksStarted(threads) < MaxTicks
    /\ threads' = [threads EXCEPT
                     ![t].pc = "wait", ![t].idx = 1, ![t].on = connection,
                     ![t].ticks = @ + 1,
                     ![t].late = @ + (IF threads[t].stopped THEN 1 ELSE 0)]
    /\ queried' = queried \cup {QueryOf(adapters[connection], Commands[1])}

\* a callback handed to root.after(0, ...)
Callback(fn, key, text) == [fn |-> fn, key |-> key, text |-> text]

\* update_data, "while self.monitoring": start the next tick, or leave
update_data_check(t) ==
    /\ threads[t].target = "update_data"
    /\ threads[t].pc = "check"
    /\ IF monitoring
       THEN StartTick(t)
       ELSE /\ threads' = [threads EXCEPT ![t].pc = "done"]
            /\ UNCHANGED queried
    /\ UNCHANGED <<connection, adapters, runVars, logging, stopRequest, monitoring, guiVars>>

\* update_data: a query returns. Its answer is handed to update_label through
\* root.after and the next command is queried, or the thread goes to sleep;
\* an exception hands stop_monitoring to root.after and leaves the loop.
\* Once the window is destroyed root.after itself raises, in the try block
\* and again in the handler, which ends the thread
update_data_query(t, answers) ==
    /\ threads[t].target = "update_data"
    /\ threads[t].pc = "wait"
    /\ \E r \in ThreadAnswers(t, answers) :
        LET c == Commands[threads[t].idx]
        IN  IF destroyed
            THEN /\ threads' = [threads EXCEPT ![t].pc = "done"]
                 /\ UNCHANGED <<after, queried>>
            ELSE IF raised(r)
            THEN /\ after' = Append(after, Callback("stop_monitoring", "", <<>>))
                 /\ threads' = [threads EXCEPT ![t].pc = "done"]
                 /\ UNCHANGED queried
            ELSE /\ after' = Append(after,
                        Callback("update_label", c,
                                 IF is_null(r) THEN NoValue ELSE Str(value(r))))
                 /\ IF threads[t].idx < Len(Commands)
                    THEN SendQuery(t, threads[t].idx + 1)
                    ELSE /\ threads' = [threads EXCEPT ![t].pc = "sleep"]
                         /\ UNCHANGED queried
    /\ UNCHANGED <<connection, adapters, runVars, logging, stopRequest, monitoring,
                   buttons, status, labels, destroyed>>

\* update_data: time.sleep(update_interval / 1000) is over
update_data_sleep(t) ==
    /\ threads[t].target = "update_data"
    /\ threads[t].pc = "sleep"
    /\ threads' = [threads EXCEPT ![t].pc = "check"]
    /\ UNCHANGED <<adapterVars, runVars, logging, stopRequest, monitoring, guiVars>>

\* the main loop runs the next callback: update_label(key, value)
update_label ==
    /\ ~destroyed
    /\ after # <<>>
    /\ Head(after).fn = "update_label"
    /\ labels' = [labels EXCEPT ![Head(after).key] = Head(after).text]
    /\ after' = Tail(after)
    /\ UNCHANGED <<adapterVars, runVars, threadVars, buttons, status, destroyed>>

\* the main loop runs the next callback: stop_monitoring, which update_data
\* scheduled when a query raised
scheduled_stop_monitoring ==
    /\ ~destroyed
    /\ after # <<>>
    /\ Head(after).fn = "stop_monitoring"
    /\ StopMonitoring
    /\ threads' = MarkStopped(threads)
    /\ after' = Tail(after)
    /\ UNCHANGED <<adapterVars, runVars, logging, stopRequest, labels, destroyed>>

\* OBDDashboard.on_closing, the window's close request
on_closing ==
    /\ ~destroyed
    /\ monitoring' = FALSE
    /\ IF connection # 0
       THEN adapters' = [adapters EXCEPT ![connection].closes = @ + 1]
       ELSE UNCHANGED adapters
    /\ destroyed' = TRUE
    /\ UNCHANGED <<connection, queried, runVars, logging, stopRequest, threads, after,
                   buttons, status, labels>>

\* the answers of a live adapter to a monitoring thread's queries: a reading,
\* no answer, or an exception
DashAnswers ==
    [c \in CommandSet |-> PlainAnswers[c] \cup {NullResponse, Raises}]

\* OBDDashboard.__init__: no connection, not monitoring, the widgets of
\* setup_ui
InitDash == Init

NextDash ==
    \/ dashboard_connect
    \/ start_monitoring
    \/ dashboard_stop_monitoring
    \/ \E t \in DOMAIN threads : update_data_check(t)
    \/ \E t \in DOMAIN threads : update_data_query(t, DashAnswers)
    \/ \E t \in DOMAIN threads : update_data_sleep(t)
    \/ update_label
    \/ scheduled_stop_monitoring
    \/ on_closing

SpecDash == InitDash /\ [][NextDash]_vars

(***************************************************************************)
(* OBDDataLogger.continuous_monitor, run by a thread of the caller so that *)
(* stop_monitoring can be called while it runs. A thread is at "enter"     *)
(* (started, before the connection test), "check", "wait", "callback"      *)
(* (inside the consumer's function), "sleep", "done".                      *)
(***************************************************************************)
\* the caller starts a thread with target continuous_monitor
continuous_monitor_start ==
    /\ Len(threads) < MaxThreads
    /\ threads' = Append(threads, NewThread("continuous_monitor", "enter"))
    /\ UNCHANGED <<adapterVars, runVars, logging, stopRequest, monitoring, guiVars>>

\* continuous_monitor: "if not self.connection: return", "self.logging = True"
continuous_monitor_enter(t) ==
    /\ threads[t].target = "continuous_monitor"
    /\ threads[t].pc = "enter"
    /\ IF connection = 0
       THEN /\ threads' = [threads EXCEPT ![t].pc = "done"]
            /\ UNCHANGED logging
       ELSE /\ threads' = [threads EXCEPT ![t].pc = "check"]
            /\ logging' = TRUE
    /\ UNCHANGED <<adapterVars, runVars, monitoring, stopRequest, guiVars>>

\* continuous_monitor, "while self.logging": start the next tick, or leave
\* through "finally: self.logging = False"
continuous_monitor_check(t) ==
    /\ threads[t].target = "continuous_monitor"
    /\ threads[t].pc = "check"
    /\ IF logging
       THEN StartTick(t)
       ELSE /\ threads' = [threads EXCEPT ![t].pc = "done"]
            /\ UNCHANGED queried
    /\ UNCHANGED <<connection, adapters, runVars, logging, stopRequest, monitoring, guiVars>>

\* continuous_monitor: a query returns. The next command is queried, or the
\* tick's data goes to the callback and the thread sleeps; an exception
\* leaves the loop through the handler and "finally: self.logging = False"
continuous_monitor_query(t, answers) ==
    /\ threads[t].target = "continuous_monitor"
    /\ threads[t].pc = "wait"
    /\ \E r \in ThreadAnswers(t, answers) :
        IF raised(r)
        THEN /\ threads' = [threads EXCEPT ![t].pc = "done"]
             /\ logging' = FALSE
             /\ UNCHANGED queried
        ELSE /\ IF threads[t].idx < Len(Commands)
                THEN SendQuery(t, threads[t].idx + 1)
                ELSE /\ threads' = [threads EXCEPT ![t].pc = "callback"]
                     /\ UNCHANGED queried
             /\ UNCHANGED logging
    /\ UNCHANGED <<connection, adapters, runVars, monitoring, stopRequest, guiVars>>

\* continuous_monitor, "callback(data)": the consumer's function runs in the
\* polling thread, inside the loop. It returns and the thread goes to sleep,
\* or it raises and the thread leaves through the handler and the finally
continuous_monitor_callback(t) ==
    /\ threads[t].target = "continuous_monitor"
    /\ threads[t].pc = "callback"
    /\ \/ /\ threads' = [threads EXCEPT ![t].pc = "sleep"]
          /\ UNCHANGED logging
       \/ /\ threads' = [threads EXCEPT ![t].pc = "done"]
          /\ logging' = FALSE
    /\ UNCHANGED <<adapterVars, runVars, monitoring, stopRequest, guiVars>>

\* continuous_monitor: time.sleep(0.1) is over
continuous_monitor_sleep(t) ==
    /\ threads[t].target = "continuous_monitor"
    /\ threads[t].pc = "sleep"
    /\ threads' = [threads EXCEPT ![t].pc = "check"]
    /\ UNCHANGED <<adapterVars, runVars, logging, stopRequest, monitoring, guiVars>>

\* OBDDataLogger.stop_monitoring
stop_monitoring ==
    /\ logging' = FALSE
    /\ threads' = MarkStopped(threads)
    /\ stopRequest' = IF pc \in {"csv", "json"} THEN Len(sessions) ELSE stopRequest
    /\ UNCHANGED <<adapterVars, runVars, monitoring, guiVars>>

NextMon ==
    \/ connect
    \/ close
    \/ continuous_monitor_start
    \/ \E t \in DOMAIN threads : continuous_monitor_enter(t)
    \/ \E t \in DOMAIN threads : continuous_monitor_check(t)
    \/ \E t \in DOMAIN threads : continuous_monitor_query(t, DashAnswers)
    \/ \E t \in DOMAIN threads : continuous_monitor_callback(t)
    \/ \E t \in DOMAIN threads : continuous_monitor_sleep(t)
    \/ stop_monitoring

SpecMon == Init /\ [][NextMon]_vars

(***************************************************************************)
(* Cancellation and ownership of the connection.                           *)
(***************************************************************************)
\* a thread that has seen a stop request started no tick after it
NoLateTick == \A t \in DOMAIN threads : threads[t].stopped => threads[t].late = 0

\* a thread that left its loop after a stop request left the session released:
\* the connection it polled was closed
ReleasedOnExit ==
    \A t \in DOMAIN threads :
        threads[t].stopped /\ threads[t].pc = "done"
            => connection # 0 /\ adapters[connection].closes > 0

\* C5: once stop_monitoring has set the flag during a monitoring run, the
\* background loop starts no further tick, whatever the instant of the
\* request, and when it has exited the session is released
C5_StopEndsTheLoop == NoLateTick /\ ReleasedOnExit

\* the threads that are inside a query on adapter k
InFlight(k) == {t \in DOMAIN threads : threads[t].pc = "wait" /\ threads[t].on = k}

\* C6: under every interleaving of start_monitoring, stop_monitoring and the
\* threads' steps, no two threads are inside a query on the same adapter
\* connection at the same time
C6_OneSamplerPerConnection ==
    \A k \in DOMAIN adapters : Cardinality(InFlight(k)) <= 1

(***************************************************************************)
(* SpecBounded: one bounded polling run (log_to_csv, log_to_json or        *)
(* monitor_live_data) on a connected object. Every query returns (a        *)
(* reading, null, or an exception) after a latency, the sleep advances the *)
(* clock, and the running call keeps taking its next step.                 *)
(***************************************************************************)
MaxLiveDuration == 1

\* the next step of the call that is running
RunStep ==
    \/ log_to_csv_tick(FaultyAnswers, Latencies)
    \/ log_to_csv_return
    \/ log_to_json_tick(FaultyAnswers, Latencies)
    \/ log_to_json_return
    \/ monitor_live_data_tick(FaultyAnswers, Latencies)
    \/ monitor_live_data_return

NextBounded ==
    \/ \E d \in 0..MaxDuration : NoRunYet /\ log_to_csv_begin(d, 1)
    \/ \E d \in 0..MaxDuration : NoRunYet /\ log_to_json_begin(d, 1)
    \/ \E d \in 0..MaxLiveDuration : NoRunYet /\ monitor_live_data_begin(d)
    \/ RunStep

SpecBounded == InitConnected /\ [][NextBounded]_vars /\ WF_vars(RunStep)

\* a step of a running call that is a pass of its loop: the call goes on, or
\* ends in an exception
TickStep ==
    /\ pc \in {"csv", "json", "live"}
    /\ pc' = pc \/ ret' \in {"", "raised"}

\* the call has returned normally
Returned == pc = "idle" /\ ret \in {"obd_log.csv", "obd_log.json", "data"}

\* C11: a bounded polling run always terminates when every query returns
\* and the clock advances; no tick starts once the elapsed time has reached
\* the duration, and a run of duration 0 makes no tick
C11_BoundedRunTerminates ==
    /\ (pc # "idle") ~> (pc = "idle")
    /\ [][TickStep => now - startTime < duration]_vars
    /\ [](Returned /\ duration = 0 => samples = <<>>)

\* a run of positive duration has returned after more than one tick, its
\* duration elapsed
C11_Witness ==
    /\ Returned
    /\ Len(samples) >= 2
    /\ now - startTime >= duration

(***************************************************************************)
(* C12. The log holds the records in tick order, none skipped or           *)
(* duplicated: its n-th entry is the record of the n-th tick, and the      *)
(* timestamps of its entries never decrease.                               *)
(***************************************************************************)
\* the clock reading a timestamp text spells
TimeOf(ts) == DigitsValue(Tail(ts))

\* the timestamps of the entries of the CSV log and of the JSON log
CsvTimes == [i \in 1..Len(CsvWritten) |-> TimeOf(CsvWritten[i][1])]

JsonTimes == [i \in 1..Len(jsonFile.data) |-> TimeOf(jsonFile.data[i].timestamp)]

NonDecreasing(s) == \A i \in 1..Len(s), j \in 1..Len(s) : i < j => s[i] <= s[j]

C12_RecordsInTickOrder ==
    /\ (csvBuf.open \/ csvFile.exists) =>
        /\ Len(CsvWritten) = Len(samples)
        /\ \A i \in 1..Len(samples) :
             Tail(CsvWritten[i]) = Tail(csv_row(0, samples[i]))
        /\ NonDecreasing(CsvTimes)
    /\ jsonFile.exists =>
        /\ Len(jsonFile.data) = Len(samples)
        /\ \A i \in 1..Len(samples) :
             jsonFile.data[i].data = json_entry(0, samples[i]).data
        /\ NonDecreasing(JsonTimes)

\* a CSV log of at least two ticks with different records was written
C12_Witness ==
    /\ pc = "idle"
    /\ csvFile.exists
    /\ Len(csvFile.rows) >= 2
    /\ Tail(csvFile.rows[1]) # Tail(csvFile.rows[2])
    /\ TimeOf(csvFile.rows[1][1]) < TimeOf(csvFile.rows[2][1])

(***************************************************************************)
(* SpecFail: one logging run of a connected logger during which the medium *)
(* of the log directory may start failing and a query may raise.           *)
(***************************************************************************)
NextFail ==
    \/ \E d \in 0..MaxDuration : NoRunYet /\ log_to_csv_begin(d, 1)
    \/ log_to_csv_tick(FaultyAnswers, {0})
    \/ log_to_csv_return
    \/ \E d \in 0..MaxDuration : NoRunYet /\ log_to_json_begin(d, 1)
    \/ log_to_json_tick(FaultyAnswers, {0})
    \/ log_to_json_return
    \/ storage_fails

SpecFail == InitConnected /\ [][NextFail]_vars

\* the last logging run was ended by a fatal failure: a query that raised,
\* or a failed write of the log
FatalFailure == pc = "idle" /\ runError \in {"query", "write"}

\* C13: when a polling loop has been ended by a fatal failure, the adapter
\* connection is closed and no log file handle is open once the operation
\* has returned
C13_FatalFailureReleases ==
    FatalFailure => ~csvBuf.open /\ adapters[connection].closes > 0

\* a write of the log has failed in the last run
WriteFailed == runError \in {"write", "open"}

\* C14: when writing the log fails during a logging run the sampler stops:
\* the operation is over and has reported failure to its caller, and no
\* adapter query is issued after the failed write
C14_WriteFailureStopsSampler ==
    /\ [](WriteFailed => pc = "idle" /\ ret = "")
    /\ [][WriteFailed => queried' = queried /\ lastTick' = lastTick /\ now' = now]_vars

\* a CSV run was ended by a failed write after it had logged a tick
C14_Witness ==
    /\ runError = "write"
    /\ csvFile.exists
    /\ samples # <<>>
    /\ FirstRaise(lastTick[1]) = 0

(***************************************************************************)
(* SpecSessions: a connected logger makes logging sessions one after       *)
(* another, each of a duration of 0 or 1 second.                           *)
(***************************************************************************)
MaxSessions == 2

NextSessions ==
    \/ \E d \in 0..1 : Len(sessions) < MaxSessions /\ log_to_csv_begin(d, 1)
    \/ log_to_csv_tick(FaultyAnswers, Latencies)
    \/ log_to_csv_return
    \/ \E d \in 0..1 : Len(sessions) < MaxSessions /\ log_to_json_begin(d, 1)
    \/ log_to_json_tick(FaultyAnswers, Latencies)
    \/ log_to_json_return

SpecSessions == InitConnected /\ [][NextSessions]_vars

\* C15: two logging sessions never write to the same log file: the file
\* names derived from their creation timestamps are distinct
C15_DistinctLogFiles ==
    \A i \in 1..Len(sessions), j \in 1..Len(sessions) :
        i # j => sessions[i] # sessions[j]

(***************************************************************************)
(* SpecOrder: a log is written, analysed, and then its records are put in  *)
(* another order on disk (the environment), any number of times.           *)
(***************************************************************************)
\* readings of very different magnitude: 409.6 and 0.1
OrderAnswers == [c \in CommandSet |-> {<<4096>>, <<1>>}]

\* the sequence s with its elements i and i + 1 exchanged
Swap(s, i) == [s EXCEPT ![i] = s[i + 1], ![i + 1] = s[i]]

\* rows i and i + 1 of the analysed CSV log change places
reorder_csv(i) ==
    /\ pc = "idle"
    /\ analysis # <<>>
    /\ analysis[1].ext = "csv"
    /\ csvFile.exists
    /\ i \in 1..(Len(csvFile.rows) - 1)
    /\ csvFile' = [csvFile EXCEPT !.rows = Swap(@, i)]
    /\ UNCHANGED <<adapterVars, now, pc, startTime, duration, interval, csvBuf,
                   jsonFile, data, samples, ret, lastTick, analysis, corrupted,
                   sessions, storage, runError, dtc, threadVars, guiVars>>

\* entries i and i + 1 of the analysed JSON log change places
reorder_json(i) ==
    /\ pc = "idle"
    /\ analysis # <<>>
    /\ analysis[1].ext = "json"
    /\ jsonFile.exists
    /\ i \in 1..(Len(jsonFile.data) - 1)
    /\ jsonFile' = [jsonFile EXCEPT !.data = Swap(@, i)]
    /\ UNCHANGED <<adapterVars, now, pc, startTime, duration, interval, csvFile,
                   csvBuf, data, samples, ret, lastTick, analysis, corrupted,
                   sessions, storage, runError, dtc, threadVars, guiVars>>

\* the finished run wrote the log of this format
LogWritten(ext) ==
    /\ pc = "idle"
    /\ IF ext = "csv" THEN csvFile.exists ELSE jsonFile.exists

NextOrder ==
    \/ \E d \in 0..MaxDuration : NoRunYet /\ log_to_csv_begin(d, 1)
    \/ log_to_csv_tick(OrderAnswers, {0})
    \/ log_to_csv_return
    \/ \E d \in 0..MaxDuration : NoRunYet /\ log_to_json_begin(d, 1)
    \/ log_to_json_tick(OrderAnswers, {0})
    \/ log_to_json_return
    \/ \E ext \in {"csv", "json"} :
          analysis = <<>> /\ LogWritten(ext) /\ analyze(ext)
    \/ \E i \in 1..MaxDuration : reorder_csv(i)
    \/ \E i \in 1..MaxDuration : reorder_json(i)

SpecOrder == InitConnected /\ [][NextOrder]_vars

\* what analyze_log_file returns for the analysed log as it is on disk now
Reanalysis ==
    analyze_log_file(analysis[1].ext,
                     IF analysis[1].ext = "csv" THEN csvFile ELSE jsonFile)

\* C16: the analysis of a log does not depend on the order of its records:
\* every permutation of the records gives the same min, max and average
C16_OrderIndependent ==
    analysis # <<>> => Reanalysis = analysis[1].result

\* C16 for min and max alone: these do not depend on the order
C16_MinMaxOrderIndependent ==
    analysis # <<>> =>
        /\ DOMAIN Reanalysis.parameters = DOMAIN analysis[1].result.parameters
        /\ \A c \in DOMAIN Reanalysis.parameters :
             /\ Reanalysis.parameters[c].min = analysis[1].result.parameters[c].min
             /\ Reanalysis.parameters[c].max = analysis[1].result.parameters[c].max

(***************************************************************************)
(* C17. connect() makes one attempt to open the adapter and reports        *)
(* success exactly when the adapter was opened and reports connected; when *)
(* the open raises or the adapter is not connected it reports failure, and *)
(* connect() can be called again.                                          *)
(***************************************************************************)
\* a step of connect(): it built an adapter object or reported a new result
ConnectStep ==
    \/ Len(adapters') > Len(adapters)
    \/ ret' \in {"True", "False"} /\ ret' # ret

\* the step built one adapter object, which reports connected, and made it
\* the object's connection
OpenedConnected ==
    /\ Len(adapters') = Len(adapters) + 1
    /\ adapters'[Len(adapters')].connected
    /\ connection' = Len(adapters')

C17_ConnectOnceAndReport ==
    /\ [][ConnectStep =>
            /\ Len(adapters') <= Len(adapters) + 1
            /\ ret' \in {"True", "False"}
            /\ (ret' = "True") <=> OpenedConnected]_vars
    /\ []((pc = "idle" /\ ret = "False" /\ Len(adapters) < MaxConnects)
            => ENABLED connect)

\* a connect that failed was followed by a connect that succeeded
C17_Witness ==
    /\ ret = "True"
    /\ Len(adapters) = 2
    /\ ~adapters[1].connected
    /\ adapters[2].connected
    /\ connection = 2

\* C17 for the dashboard: the status reports a connection exactly when the
\* step built one adapter object that reports connected
C17_DashboardConnect ==
    [][Len(adapters') > Len(adapters) \/
       (status' \in {"Connected to OBD adapter", "Connection failed",
                     "Connection error"} /\ status' # status) =>
            /\ Len(adapters') <= Len(adapters) + 1
            /\ (status' = "Connected to OBD adapter") <=> OpenedConnected
            /\ (status' # "Connected to OBD adapter") => buttons'.connect]_vars

(***************************************************************************)
(* SpecHandOff: continuous_monitor threads on a connected logger. The      *)
(* scheduler keeps running every polling thread's own steps; nothing says  *)
(* that the consumer's function ever returns.                              *)
(***************************************************************************)
\* a step of polling thread t that is the sampler's own
SamplerStep(t) ==
    /\ t \in DOMAIN threads
    /\ \/ continuous_monitor_enter(t)
       \/ continuous_monitor_check(t)
       \/ continuous_monitor_query(t, DashAnswers)
       \/ continuous_monitor_sleep(t)

NextHandOff ==
    \/ continuous_monitor_start
    \/ \E t \in DOMAIN threads : continuous_monitor_enter(t)
    \/ \E t \in DOMAIN threads : continuous_monitor_check(t)
    \/ \E t \in DOMAIN threads : continuous_monitor_query(t, DashAnswers)
    \/ \E t \in DOMAIN threads : continuous_monitor_callback(t)
    \/ \E t \in DOMAIN threads : continuous_monitor_sleep(t)
    \/ stop_monitoring

SpecHandOff ==
    /\ InitConnected
    /\ [][NextHandOff]_vars
    /\ \A t \in 1..MaxThreads : WF_vars(SamplerStep(t))

\* thread t has the answers of a tick: it is giving them to the consumer, or
\* has given them
TickAnswered(t) ==
    t \in DOMAIN threads /\ threads[t].pc \in {"callback", "sleep"}

\* thread t is at its loop test again, or has left the loop
AtLoopTest(t) ==
    t \in DOMAIN threads /\ threads[t].pc \in {"check", "done"}

\* C18: the sampler never waits on a consumer: a polling thread that has the
\* answers of a tick comes back to its loop test for the next tick, whether
\* or not the consumer that received the tick's data ever finishes with it
C18_SamplerNeverWaits ==
    \A t \in 1..MaxThreads : TickAnswered(t) ~> AtLoopTest(t)

\* C18 for the dashboard: root.after hands the update to the main loop, and
\* the thread's next step is enabled whatever is left in the queue of
\* callbacks the main loop has not run
C18_DashboardHandsOff ==
    \A t \in DOMAIN threads :
        /\ threads[t].pc = "sleep" => ENABLED update_data_sleep(t)
        /\ threads[t].pc = "wait" => ENABLED update_data_query(t, DashAnswers)

(***************************************************************************)
(* The status line after a monitoring thread has failed.                   *)
(***************************************************************************)
\* the status texts of the dashboard that report an error
ErrorStatuses == {"Connection failed", "Connection error"}

\* the main loop runs the callback that update_data scheduled in its
\* exception handler, and no scheduled callback is left after it
FailureHandled ==
    /\ after # <<>>
    /\ Head(after).fn = "stop_monitoring"
    /\ after' = <<>>

\* C19: when update_data has ended in an exception and all the callbacks it
\* scheduled have run, the status shown is an error status, not the idle or
\* the running one
C19_ErrorStatusAfterFailure ==
    [][FailureHandled => status' \in ErrorStatuses]_vars

(***************************************************************************)
(* C20. Every entry a logging run writes has a timestamp and exactly one   *)
(* value for each requested parameter (a number's text, a text, or the     *)
(* null marker), in the order of the header, and the header lists the      *)
(* requested parameters in the order given; this holds for every row,      *)
(* after any number of ticks.                                              *)
(***************************************************************************)
\* an isoformat timestamp
IsTimestamp(ts) == Len(ts) >= 2 /\ Head(ts) = "T" /\ AllDigits(Tail(ts))

\* the text of a reading
IsValueText(s) == ParseFloat(s) # <<>>

\* the header of the CSV log, in the handle's buffer or in the closed file
CsvHeader == IF csvBuf.open THEN csvBuf.header ELSE csvFile.header

\* the header: "Timestamp", then the requested commands in the order given
HeaderInOrder ==
    /\ Len(CsvHeader) = Len(Commands) + 1
    /\ CsvHeader[1] = "Timestamp"
    /\ \A i \in 1..Len(Commands) : CsvHeader[i + 1] = Commands[i]

\* row k: a timestamp, then under each name of the header what the tick's
\* query of that command answered, as text or as the null marker
RowMatchesHeader(k) ==
    LET row == CsvWritten[k]
    IN  /\ Len(row) = Len(CsvHeader)
        /\ IsTimestamp(row[1])
        /\ \A i \in 2..Len(row) :
            LET r == samples[k][CsvHeader[i]]
            IN  IF is_null(r) THEN row[i] = NULL
                ELSE IsValueText(row[i]) /\ ParseFloat(row[i]) = <<value(r)>>

\* entry k of the JSON log: a timestamp, and one value per requested command,
\* a text or null
EntryComplete(e) ==
    /\ IsTimestamp(e.timestamp)
    /\ e.hasData
    /\ DOMAIN e.data = CommandSet
    /\ \A c \in CommandSet : e.data[c].null \/ IsValueText(e.data[c].s)

C20_EntriesMatchHeader ==
    /\ (csvBuf.open \/ csvFile.exists) =>
        /\ HeaderInOrder
        /\ Len(CsvWritten) = Len(samples)
        /\ \A k \in 1..Len(CsvWritten) : RowMatchesHeader(k)
    /\ \A k \in 1..Len(data) : EntryComplete(data[k])
    /\ jsonFile.exists => \A k \in 1..Len(jsonFile.data) : EntryComplete(jsonFile.data[k])

\* a closed CSV log of several rows, one of them with a null marker next to a
\* reading
C20_Witness ==
    /\ csvFile.exists
    /\ Len(csvFile.rows) >= 2
    /\ \E k \in 1..Len(csvFile.rows) :
        /\ csvFile.rows[k][2] = NULL
        /\ csvFile.rows[k][3] # NULL

(***************************************************************************)
(* C21. For a parameter without any non-absent observation the analysis    *)
(* reports min and max as undefined, not as a number such as +infinity or  *)
(* -infinity.                                                              *)
(***************************************************************************)
\* a float of the analysis, the two infinities included
IsFloat(x) == x \in Int

C21_NoObservationNoExtremes ==
    AnalysedIntact =>
        \A c \in DOMAIN analysis[1].result.parameters :
            NonAbsent(c) = 0 =>
                /\ ~IsFloat(analysis[1].result.parameters[c].min)
                /\ ~IsFloat(analysis[1].result.parameters[c].max)

(***************************************************************************)
(* C22. Ticks are aligned to the clock: in a run started at S with         *)
(* interval I, tick k+1 begins at S + (k+1)*I whenever the queries of tick *)
(* k finished before that instant, so the latency of the queries does not  *)
(* add up to a drift.                                                      *)
(***************************************************************************)
\* a pass of the polling loop completes: its record is kept and it sleeps
TickCompletes == pc \in {"csv", "json", "live"} /\ Len(samples') = Len(samples) + 1

\* the instant the tick after the completed ones is due
DueNext == startTime + Len(samples') * interval

\* the loop goes on after the sleep: the next tick begins at now'
NextTickBegins == now' - startTime < duration

\* the instant the queries of the completing pass finished: the sleep of
\* one interval began there
QueriesFinished == now' - interval

C22_ClockAligned ==
    [][TickCompletes /\ NextTickBegins /\ QueriesFinished < DueNext
            => now' = DueNext]_vars

(***************************************************************************)
(* SpecCancel: a bounded logging run on a connected logger, and another    *)
(* thread of the caller that may call stop_monitoring at any point of it.  *)
(***************************************************************************)
NextCancel ==
    \/ \E d \in 0..MaxDuration : NoRunYet /\ log_to_csv_begin(d, 1)
    \/ log_to_csv_tick(FaultyAnswers, Latencies)
    \/ log_to_csv_return
    \/ \E d \in 0..MaxDuration : NoRunYet /\ log_to_json_begin(d, 1)
    \/ log_to_json_tick(FaultyAnswers, Latencies)
    \/ log_to_json_return
    \/ stop_monitoring

SpecCancel == InitConnected /\ [][NextCancel]_vars

\* stop_monitoring was called during the logging run in progress
CancelRequested == pc \in {"csv", "json"} /\ stopRequest = Len(sessions)

\* C23: a stop_monitoring call made during a bounded logging run ends the
\* run before its duration has elapsed: no tick is started after the call
C23_StopEndsBoundedRun ==
    [][CancelRequested => ~TickStep]_vars

(***************************************************************************)
(* DiagnosticReportGenerator.get_dtc_codes and get_dtc_description. A      *)
(* fault code is a text; the adapter reports a list of (code, description) *)
(* pairs, of which the generator reads the code.                           *)
(***************************************************************************)
MaxCodes == 2

\* the fault codes an adapter may report; the last is the empty text
DtcCodes ==
    {<<"P", "1">>, <<"P", "2">>, <<"C", "1">>, <<"B", "1">>, <<"U", "1">>,
     <<"X", "1">>, <<>>}

\* the value of a GET_DTC response: up to MaxCodes pairs (code, description)
DtcReports ==
    UNION {[1..n -> {<<code, <<"adapter's text">>>> : code \in DtcCodes}] : n \in 0..MaxCodes}

\* what GET_DTC can yield on adapter ad: a live adapter reports a list,
\* answers null, or the query raises
DtcAnswers(ad) ==
    IF ad.connected /\ ad.closes = 0
    THEN {<<v>> : v \in DtcReports} \cup {NullResponse, Raises}
    ELSE {NullResponse}

\* history of the call self.connection.query(obd.commands.GET_DTC)
DtcQueryOf(ad) ==
    [cmd |-> "GET_DTC", connected |-> ad.connected, supported |-> TRUE,
     closed |-> ad.closes > 0]

\* a table without the entry of the network codes
prefix_meanings_three == [P |-> "Powertrain", C |-> "Chassis", B |-> "Body"]

prefix_meanings ==
    [P |-> "Powertrain", C |-> "Chassis", B |-> "Body", U |-> "Network"]

\* prefix_meanings.get(key, default)
Get(table, key, default) == IF key \in DOMAIN table THEN table[key] ELSE default

\* get_dtc_description: code[0] fails on the empty text, which the handler
\* turns into "Unknown issue"
get_dtc_description(code) ==
    IF code = <<>> THEN <<"Unknown issue">>
    ELSE <<Get(prefix_meanings, code[1], "Unknown"), " related issue (Code: ">>
            \o code \o <<")">>

\* the list get_dtc_codes builds from the value of the response
dtc_entries(reported) ==
    [i \in 1..Len(reported) |->
        [code |-> reported[i][1],
         description |-> get_dtc_description(reported[i][1])]]

\* the value "no query was made" of the history of the adapter's answer
NoQuery == <<0, 0, 0>>

\* get_dtc_codes: [] without a connection, for a null response and when the
\* query raises; else one entry per reported code
get_dtc_codes ==
    /\ pc = "idle"
    /\ IF connection = 0
       THEN /\ dtc' = <<[response |-> NoQuery, codes |-> <<>>]>>
            /\ UNCHANGED queried
       ELSE \E r \in DtcAnswers(adapters[connection]) :
            /\ queried' = queried \cup {DtcQueryOf(adapters[connection])}
            /\ dtc' = <<[response |-> r,
                         codes |-> IF raised(r) \/ is_null(r) THEN <<>>
                                   ELSE dtc_entries(value(r))]>>
    /\ ret' = "codes"
    /\ UNCHANGED <<connection, adapters, now, pc, startTime, duration, interval,
                   csvFile, csvBuf, jsonFile, data, samples, analysis, corrupted,
                   lastTick>>
    /\ UNCHANGED <<threadVars, guiVars, sessions, storage, runError>>

NextDtc ==
    \/ connect
    \/ close
    \/ dtc = <<>> /\ get_dtc_codes

SpecDtc == Init /\ [][NextDtc]_vars

(***************************************************************************)
(* C24. get_dtc_codes returns one {code, description} entry per fault code *)
(* the adapter reported, in the adapter's order, and the empty list when   *)
(* there is no connection, the response is null or the query raises. Each  *)
(* description is given by the first character of the code alone, through  *)
(* P, C, B, U -> Powertrain, Chassis, Body, Network, every other first     *)
(* character giving Unknown.                                               *)
(***************************************************************************)
\* the adapter reported a list of fault codes in the last call
Reported ==
    /\ dtc # <<>>
    /\ Len(dtc[1].response) = 1

\* the system named for a first character
SystemOf(ch) ==
    IF ch = "P" THEN "Powertrain"
    ELSE IF ch = "C" THEN "Chassis"
    ELSE IF ch = "B" THEN "Body"
    ELSE IF ch = "U" THEN "Network"
    ELSE "Unknown"

\* the description of a code that has a first character: the system named
\* for that character, in a fixed text that quotes the code
DescribedByFirst(e) ==
    e.code # <<>> =>
        e.description =
            <<SystemOf(e.code[1]), " related issue (Code: ">> \o e.code \o <<")">>

C24_DtcEntries ==
    dtc # <<>> =>
        IF Reported
        THEN LET reported == dtc[1].response[1]
                 codes == dtc[1].codes
             IN  /\ Len(codes) = Len(reported)
                 /\ \A i \in 1..Len(codes) :
                      /\ DOMAIN codes[i] = {"code", "description"}
                      /\ codes[i].code = reported[i][1]
                      /\ DescribedByFirst(codes[i])
                 /\ \A i, j \in 1..Len(codes) :
                      (codes[i].code # <<>> /\ codes[j].code # <<>>
                        /\ codes[i].code[1] = codes[j].code[1])
                      => codes[i].description[1] = codes[j].description[1]
        ELSE dtc[1].codes = <<>>

\* the adapter reported a network code and a code of an unknown system
C24_Witness ==
    /\ Reported
    /\ Len(dtc[1].codes) = 2
    /\ dtc[1].codes[1].code = <<"U", "1">>
    /\ dtc[1].codes[2].code = <<"X", "1">>

(***************************************************************************)
(* C25. Once close() or the dashboard's on_closing has closed a            *)
(* connection, no query is issued on that connection again, whatever       *)
(* operation is called later on the object and however a monitoring thread *)
(* that is still running interleaves.                                      *)
(***************************************************************************)
C25_NoQueryAfterClose == \A q \in queried : ~q.closed

(***************************************************************************)
(* C26. For every sequence of records over the same parameters, the empty  *)
(* sequence included, the analysis of the CSV log and the analysis of the  *)
(* JSON log of those records are the same: the same parameter names and,   *)
(* for each, the same min, max and avg (present or not).                   *)
(***************************************************************************)
\* the CSV log and the JSON log that a run with the tick records recs writes
CsvLogOf(recs) ==
    [exists |-> TRUE, header |-> csv_headers,
     rows |-> [i \in 1..Len(recs) |-> csv_row(i, recs[i])]]

JsonLogOf(recs) ==
    [exists |-> TRUE, parsable |-> TRUE,
     data |-> [i \in 1..Len(recs) |-> json_entry(i, recs[i])]]

\* the analysis of the log of the other format for the records of the run
OtherAnalysis ==
    IF analysis[1].ext = "csv"
    THEN analyze_log_file("json", JsonLogOf(samples))
    ELSE analyze_log_file("csv", CsvLogOf(samples))

C26_CsvJsonAgree == AnalysedIntact => analysis[1].result = OtherAnalysis

\* C26 for a log of at least one record: here the two analyses agree
C26_AgreeWhenNonEmpty ==
    AnalysedIntact /\ samples # <<>> => analysis[1].result = OtherAnalysis

(***************************************************************************)
(* C27. After a connect() that reported failure every later operation on   *)
(* the object behaves as with no connection: it issues no adapter query    *)
(* and returns its empty or failure value, both when the open raised and   *)
(* when the adapter object was built but reports not connected.            *)
(***************************************************************************)
\* the object holds an adapter whose connect reported failure
FailedConnection == connection # 0 /\ ~adapters[connection].connected

C27_FailedConnectIsNoConnection ==
    /\ \A q \in queried : q.connected
    /\ FailedConnection =>
        /\ pc = "idle"
        /\ ret \notin {"obd_log.csv", "obd_log.json"}

(***************************************************************************)
(* SpecAnalyze: analyze_log_file on the CSV log, the JSON log or a file of *)
(* another extension, before any run (the file is missing) or after a run, *)
(* the log possibly damaged in one entry, the medium possibly failing.     *)
(***************************************************************************)
NextAnalyze ==
    \/ \E d \in 0..MaxDuration : NoRunYet /\ log_to_csv_begin(d, 1)
    \/ log_to_csv_tick(PlainAnswers, {0})
    \/ log_to_csv_return
    \/ \E d \in 0..MaxDuration : NoRunYet /\ log_to_json_begin(d, 1)
    \/ log_to_json_tick(PlainAnswers, {0})
    \/ log_to_json_return
    \/ \E i \in 1..MaxDuration, j \in 0..Len(Commands) :
         analysis = <<>> /\ damage_csv(i, j)
    \/ \E i \in 1..MaxDuration, how \in {"garbled", "no data", "torn"} :
         analysis = <<>> /\ damage_json(i, how)
    \/ storage_fails
    \/ \E ext \in {"csv", "json", "txt"} : analysis = <<>> /\ analyze(ext)

SpecAnalyze == InitConnected /\ [][NextAnalyze]_vars

\* a call of analyze_log_file ends
AnalyzeStep == analysis = <<>> /\ analysis' # <<>>

\* the file the call was made on
Analysed == IF analysis'[1].ext = "csv" THEN csvFile ELSE jsonFile

\* the file is missing, of an unsupported extension, or its parsing fails
NotAnalysable ==
    \/ ~Analysed.exists
    \/ analysis'[1].ext \notin {"csv", "json"}
    \/ analysis'[1].ext = "csv" /\ csv_raises(Analysed)
    \/ analysis'[1].ext = "json" /\ json_raises(Analysed)

\* C28: analyze_log_file never raises and changes neither the logger's
\* state nor the log file; it returns {} for a missing file, an unsupported
\* extension and any failure of the reading or the parsing, and a mapping
\* with a "parameters" entry otherwise
C28_AnalysisNeverRaises ==
    [][AnalyzeStep =>
        /\ analysis'[1].result # OSErrorRaised
        /\ UNCHANGED <<csvFile, csvBuf, jsonFile, data, adapterVars, threadVars,
                       pc, ret, sessions>>
        /\ NotAnalysable => analysis'[1].result = EmptyDict
        /\ analysis'[1].result # EmptyDict =>
              /\ ~analysis'[1].result.empty
              /\ ~NotAnalysable]_vars

\* C28 on a medium that works: here the call never raises
C28_HoldsOnWorkingMedium ==
    [][AnalyzeStep /\ storage = "ok" =>
        /\ analysis'[1].result # OSErrorRaised
        /\ UNCHANGED <<csvFile, csvBuf, jsonFile, data, adapterVars, threadVars,
                       pc, ret, sessions>>
        /\ NotAnalysable <=> analysis'[1].result = EmptyDict
        /\ ~NotAnalysable => ~analysis'[1].result.empty]_vars
=============================================================================
